---- MODULE Spec2Model ----
(***************************************************************************)
(* A model of the YouTube comment pipeline: the video reference resolver   *)
(* (extract_video_id), the fetch program (analyze.py) and the batch        *)
(* summarisation program (sentiment.py).                                   *)
(*                                                                         *)
(* Text is modelled as a sequence of one-character strings, so that the    *)
(* regular expressions, urlparse and parse_qs are computed character by    *)
(* character as the library computes them.                                 *)
(***************************************************************************)
EXTENDS Integers, Sequences, FiniteSets, TLC

VARIABLES
    \* ---- resolver harness (extract_video_id applied to one input)
    url,            \* the string handed to extract_video_id
    resolved,       \* extract_video_id(url), NULL before the call
    resolved2,      \* extract_video_id(resolved), NULL before the call
    rpc,            \* "start", "resolved", "again" ("idle" when the harness is not run)
    \* ---- the fetch program
    pc,               \* "main", "metadata", "comments", "paging", "fetched", "exited"
    run,              \* which run of the program this is
    argv,             \* sys.argv[1], NULL when absent
    youtube_api_key,  \* YOUTUBE_API_KEY of the environment, "" when unset
    video_id,         \* main's video_id, NULL for None
    had_files,        \* line 299: both data files existed when main looked
    metadata_call,    \* videos().list was requested from the service in this run
    metadata_file,    \* output/<video_id>_metadata.csv
    comment_file,     \* output/<video_id>_comments.csv
    comments,         \* len(comments) in fetch_video_comments
    total_fetched,
    next_page_token,  \* TRUE when the last response carried a nextPageToken
    last_error,       \* what ended the comment fetch: "none", "commentsDisabled",
                      \* "HttpError", "Exception", "noClient"
    metadata_success, \* "unset", "True", "False"
    comments_success, \* "unset", "True", "False"
    success,          \* main's success: "unset", "True", "False"
    exit_code,        \* the process exit status, -1 while running
    \* ---- the summarisation program
    spc,              \* "start", "loop", "metadata", "analyze", "processed", "done"
                      \* ("batch", "sampled" for the sampling alone)
    env_openai_key,   \* OPENAI_API_KEY of the environment, "" when unset
    llm_up,           \* the LLM endpoint answers requests
    container,        \* the names of the blobs in the container at the start
    blob_rows,        \* the number of rows of each comment blob
    comment_blobs,    \* main's comment_blobs
    results,          \* main's results
    file_index,       \* how many blobs of comment_blobs have been taken up
    blob_name,        \* process_comment_file's argument
    p_video_id,       \* process_comment_file's video_id
    downloaded,       \* the comment blob was downloaded
    comments_df,      \* the rows read from it
    video_metadata,   \* TRUE when get_video_metadata returned a record
    openai_analysis,  \* the analysis text, NoAnalysis for None
    llm_called,       \* the endpoint was called for this file
    shown,            \* sample_comments: the rows put into the prompt
    result,           \* what process_comment_file returns
    llm_calls,        \* calls of the endpoint in this run
    local_files,      \* analysis files written under output/sentiment_analysis
    remote_files,     \* blobs uploaded by this run
    now,              \* the clock, in files taken up
    summary,          \* processing_summary.json
    main_result,      \* what main returns: "unset", "True", "False"
    rng_shift,        \* the random source of DataFrame.sample
    rng_rev

rvars == <<url, resolved, resolved2, rpc>>

fvars == <<pc, run, argv, youtube_api_key, video_id, had_files, metadata_call, metadata_file,
           comment_file, comments, total_fetched, next_page_token, last_error,
           metadata_success, comments_success, success, exit_code>>

svars == <<spc, env_openai_key, llm_up, container, blob_rows, comment_blobs, results,
           file_index, blob_name, p_video_id, downloaded, comments_df, video_metadata,
           openai_analysis, llm_called, shown, result, llm_calls, local_files,
           remote_files, now, summary, main_result, rng_shift, rng_rev>>

vars == <<rvars, fvars, svars>>

\* Python's None.  A sequence like every other text value, and no text:
\* its only element is not a single character.
NULL == <<"<None>">>

(***************************************************************************)
(* Characters                                                              *)
(***************************************************************************)
Lower == {"a", "b", "c", "d", "e", "f", "g", "h", "i", "j", "k", "l", "m", "n", "o", "p", "q", "r", "s", "t", "u", "v", "w", "x", "y", "z"}
Upper == {"A", "B", "C", "D", "E", "F", "G", "H", "I", "J", "K", "L", "M", "N", "O", "P", "Q", "R", "S", "T", "U", "V", "W", "X", "Y", "Z"}
Digits == {"0", "1", "2", "3", "4", "5", "6", "7", "8", "9"}
Letters == Lower \cup Upper

\* The character class [a-zA-Z0-9_-] of the three patterns.
IdChars == Letters \cup Digits \cup {"_", "-"}

\* The {11} of the three patterns.
IdLen == 11

\* urllib.parse.scheme_chars
SchemeChars == Letters \cup Digits \cup {"+", "-", "."}

\* Characters urlsplit strips from the left (C0 controls and space) and the
\* ones it removes everywhere (tab, CR, LF).
C0OrSpace == {" ", "\t", "\n", "\r"}
UnsafeChars == {"\t", "\n", "\r"}

\* ASCII 32..126 in code order: Printable[c - 31] is chr(c) (the grave
\* accent, code 96, is written "<grave>").
Printable == <<" ", "!", "\"", "#", "$", "%", "&", "'", "(", ")", "*", "+", ",", "-", ".", "/", "0", "1", "2", "3", "4", "5", "6", "7", "8", "9", ":", ";", "<", "=", ">", "?", "@", "A", "B", "C", "D", "E", "F", "G", "H", "I", "J", "K", "L", "M", "N", "O", "P", "Q", "R", "S", "T", "U", "V", "W", "X", "Y", "Z", "[", "\\", "]", "^", "_", "<grave>", "a", "b", "c", "d", "e", "f", "g", "h", "i", "j", "k", "l", "m", "n", "o", "p", "q", "r", "s", "t", "u", "v", "w", "x", "y", "z", "{", "|", "}", "~">>

\* What a percent-escape outside ASCII 32..126 (and other than tab, LF and
\* CR) decodes to: a control character or, after UTF-8 decoding with
\* errors='replace', a character outside ASCII.  It is no character of any pattern of the program.
OtherChar == "<other>"

HexDigits == Digits \cup {"a", "b", "c", "d", "e", "f", "A", "B", "C", "D", "E", "F"}

HexVal(c) ==
    CASE c \in Digits -> CHOOSE n \in 0..9 : Printable[n + 17] = c
      [] c \in {"a", "A"} -> 10
      [] c \in {"b", "B"} -> 11
      [] c \in {"c", "C"} -> 12
      [] c \in {"d", "D"} -> 13
      [] c \in {"e", "E"} -> 14
      [] c \in {"f", "F"} -> 15

Chr(n) ==
    CASE n >= 32 /\ n <= 126 -> Printable[n - 31]
      [] n = 9 -> "\t"
      [] n = 10 -> "\n"
      [] n = 13 -> "\r"
      [] OTHER -> OtherChar

(***************************************************************************)
(* Text helpers (Python str operations used by the code and by urllib)     *)
(***************************************************************************)
\* s[i:] in 1-based positions: the text from position i on.
From(s, i) == SubSeq(s, i, Len(s))

\* p occurs in s at position i.
StartsAt(s, p, i) ==
    /\ i >= 1
    /\ i + Len(p) - 1 <= Len(s)
    /\ SubSeq(s, i, i + Len(p) - 1) = p

\* Python's "p in s".
Contains(s, p) == \E i \in 1..(Len(s) + 1) : StartsAt(s, p, i)

\* The position of the first character of s that is in set cs, 0 if none
\* (str.find, which answers -1, shifted to 1-based positions).
FindAny(s, cs) ==
    IF \E i \in 1..Len(s) : s[i] \in cs
    THEN CHOOSE i \in 1..Len(s) : s[i] \in cs /\ \A j \in 1..(i - 1) : s[j] \notin cs
    ELSE 0

RECURSIVE LStrip(_, _)
LStrip(s, cs) ==
    IF s # <<>> /\ Head(s) \in cs THEN LStrip(Tail(s), cs) ELSE s

\* Remove every character of cs (str.replace(b, "") for each b).
Remove(s, cs) == SelectSeq(s, LAMBDA c : c \notin cs)

\* str.replace('+', ' ')
PlusToSpace(s) == [i \in 1..Len(s) |-> IF s[i] = "+" THEN " " ELSE s[i]]

\* str.split(sep): the pieces between occurrences of the character sep.
RECURSIVE Split(_, _)
Split(s, sep) ==
    LET i == FindAny(s, {sep})
    IN  IF i = 0 THEN <<s>>
        ELSE <<SubSeq(s, 1, i - 1)>> \o Split(From(s, i + 1), sep)

(***************************************************************************)
(* urllib.parse as extract_video_id uses it (analyze.py lines 53-57)       *)
(***************************************************************************)
\* urlsplit's first steps: strip leading C0/space, remove tab, CR and LF,
\* then drop "<scheme>:" when the text before the first ":" is a scheme.
AfterScheme(u) ==
    LET s == Remove(LStrip(u, C0OrSpace), UnsafeChars)
        i == FindAny(s, {":"})
    IN  IF /\ i > 1
           /\ s[1] \in Letters
           /\ \A k \in 1..(i - 1) : s[k] \in SchemeChars
        THEN From(s, i + 1)
        ELSE s

\* The network location: present only when what follows the scheme starts
\* with "//"; it runs to the first "/", "?" or "#".
HasNetloc(u) == StartsAt(AfterScheme(u), <<"/", "/">>, 1)

Netloc(u) ==
    LET s == AfterScheme(u)
        r == From(s, 3)
        e == FindAny(r, {"/", "?", "#"})
    IN  IF ~HasNetloc(u) THEN <<>>
        ELSE IF e = 0 THEN r ELSE SubSeq(r, 1, e - 1)

\* urlsplit raises ValueError("Invalid IPv6 URL") when the network location
\* holds one bracket without the other.
urlsplit_raises(u) ==
    LET n == Netloc(u)
    IN  \/ ("[" \in {n[i] : i \in 1..Len(n)} /\ "]" \notin {n[i] : i \in 1..Len(n)})
        \/ ("]" \in {n[i] : i \in 1..Len(n)} /\ "[" \notin {n[i] : i \in 1..Len(n)})

\* urlparse(u): the components extract_video_id reads, and the rest of the
\* split.  The fragment is cut at the first "#", then the query at the
\* first "?" of what is left.
urlparse(u) ==
    LET s     == AfterScheme(u)
        rest  == IF HasNetloc(u) THEN From(s, 3 + Len(Netloc(u))) ELSE s
        h     == FindAny(rest, {"#"})
        noFrg == IF h = 0 THEN rest ELSE SubSeq(rest, 1, h - 1)
        q     == FindAny(noFrg, {"?"})
    IN  [ netloc   |-> Netloc(u),
          path     |-> IF q = 0 THEN noFrg ELSE SubSeq(noFrg, 1, q - 1),
          query    |-> IF q = 0 THEN <<>> ELSE From(noFrg, q + 1),
          fragment |-> IF h = 0 THEN <<>> ELSE From(rest, h + 1) ]

\* urllib.parse.unquote: "%XY" with two hex digits becomes the character of
\* that code; any other "%" stays.
RECURSIVE unquote(_)
unquote(s) ==
    IF s = <<>> THEN <<>>
    ELSE IF /\ s[1] = "%"
            /\ Len(s) >= 3
            /\ s[2] \in HexDigits
            /\ s[3] \in HexDigits
         THEN <<Chr(16 * HexVal(s[2]) + HexVal(s[3]))>> \o unquote(From(s, 4))
         ELSE <<s[1]>> \o unquote(Tail(s))

\* A name or a value of the query string, decoded: "+" is a space, then
\* the percent-escapes.
qs_decode(s) == unquote(PlusToSpace(s))

\* parse_qsl(query): the (name, value) pairs in order.  Fields are
\* separated by "&"; a field without "=" and a field with a blank value are
\* dropped (strict_parsing and keep_blank_values are off).
parse_qsl(query) ==
    LET fields == Split(query, "&")
        Kept(f) == LET e == FindAny(f, {"="}) IN e # 0 /\ e < Len(f)
        Pair(f) == LET e == FindAny(f, {"="})
                   IN  <<qs_decode(SubSeq(f, 1, e - 1)), qs_decode(From(f, e + 1))>>
        kept == SelectSeq(fields, Kept)
    IN  [i \in 1..Len(kept) |-> Pair(kept[i])]

\* parse_qs(query): each name mapped to the list of its values, in order.
parse_qs(query) ==
    LET pairs == parse_qsl(query)
        names == {pairs[i][1] : i \in 1..Len(pairs)}
        Vals(n) == LET mine == SelectSeq(pairs, LAMBDA p : p[1] = n)
                   IN  [i \in 1..Len(mine) |-> mine[i][2]]
    IN  [n \in names |-> Vals(n)]

(***************************************************************************)
(* extract_video_id (analyze.py lines 24-67; sentiment_search.py lines     *)
(* 23-53 hold the same code)                                               *)
(***************************************************************************)
S_youtu_be == <<"y", "o", "u", "t", "u", ".", "b", "e", "/">>
S_shorts == <<"y", "o", "u", "t", "u", "b", "e", ".", "c", "o", "m", "/", "s", "h", "o", "r", "t", "s", "/">>
S_youtube_com == <<"y", "o", "u", "t", "u", "b", "e", ".", "c", "o", "m">>

\* The literal prefixes of the two short patterns, in the order tried.
short_patterns == <<S_youtu_be, S_shorts>>

\* The pattern  prefix([a-zA-Z0-9_-]{11})  matches s at position i.
MatchAt(s, prefix, i) ==
    /\ StartsAt(s, prefix, i)
    /\ i + Len(prefix) + IdLen - 1 <= Len(s)
    /\ \A k \in 0..(IdLen - 1) : s[i + Len(prefix) + k] \in IdChars

\* re.search(pattern, s).group(1): the capture of the leftmost match, NULL
\* when there is no match.
RECURSIVE re_search_from(_, _, _)
re_search_from(prefix, s, i) ==
    IF i > Len(s) THEN NULL
    ELSE IF MatchAt(s, prefix, i)
         THEN SubSeq(s, i + Len(prefix), i + Len(prefix) + IdLen - 1)
         ELSE re_search_from(prefix, s, i + 1)

re_search(prefix, s) == re_search_from(prefix, s, 1)

\* The loop over short_patterns: the capture of the first pattern that
\* matches.
RECURSIVE short_match(_, _)
short_match(s, k) ==
    IF k > Len(short_patterns) THEN NULL
    ELSE IF re_search(short_patterns[k], s) # NULL
         THEN re_search(short_patterns[k], s)
         ELSE short_match(s, k + 1)

\* re.match(r'^[a-zA-Z0-9_-]{11}$', s): eleven class characters, then the
\* end of the text; "$" also matches just before one final line feed.
re_match_id(s) ==
    /\ Len(s) >= IdLen
    /\ \A k \in 1..IdLen : s[k] \in IdChars
    /\ \/ Len(s) = IdLen
       \/ Len(s) = IdLen + 1 /\ s[IdLen + 1] = "\n"

\* extract_video_id with the watch-URL rule tried before the short patterns.
extract_video_id_watch_first(u) ==
    LET m == short_match(u, 1)
        parsed_url   == urlparse(u)
        query_params == parse_qs(parsed_url.query)
    IN  IF urlsplit_raises(u) THEN NULL
        ELSE IF /\ Contains(parsed_url.netloc, S_youtube_com)
                /\ <<"v">> \in DOMAIN query_params
             THEN query_params[<<"v">>][1]
             ELSE IF m # NULL THEN m
             ELSE IF re_match_id(u) THEN u ELSE NULL

extract_video_id(u) ==
    LET m == short_match(u, 1)
    IN  IF m # NULL THEN m
        ELSE IF urlsplit_raises(u) THEN NULL    \* caught by except Exception
        ELSE LET parsed_url   == urlparse(u)
                 query_params == parse_qs(parsed_url.query)
             IN  IF /\ Contains(parsed_url.netloc, S_youtube_com)
                    /\ <<"v">> \in DOMAIN query_params
                 THEN query_params[<<"v">>][1]
                 ELSE IF re_match_id(u) THEN u ELSE NULL

(***************************************************************************)
(* Inputs of the resolver: URL-shaped and bare texts assembled from parts  *)
(***************************************************************************)
\* How many query parameters an assembled input carries at most.
MaxParams == 2

ID1 == <<"d", "Q", "w", "4", "w", "9", "W", "g", "X", "c", "Q">>
ID2 == <<"a", "_", "b", "-", "c", "_", "d", "-", "e", "_", "f">>

Schemes_https == <<"h", "t", "t", "p", "s", ":", "/", "/">>
Host_www == <<"w", "w", "w", ".", "y", "o", "u", "t", "u", "b", "e", ".", "c", "o", "m">>
Host_short == <<"y", "o", "u", "t", "u", ".", "b", "e">>
Host_other == <<"e", "x", "a", "m", "p", "l", "e", ".", "c", "o", "m">>
Path_watch == <<"/", "w", "a", "t", "c", "h">>
Path_shorts == <<"/", "s", "h", "o", "r", "t", "s", "/">> \o ID1
Param_v_id == <<"v", "=">> \o ID1
Param_v_abc == <<"v", "=", "a", "b", "c">>
Param_v_blank == <<"v", "=">>
Param_t == <<"t", "=", "1", "0", "s">>
Param_u_short == <<"u", "=", "y", "o", "u", "t", "u", ".", "b", "e", "/">> \o ID2
Frag_t == <<"#", "t", "=", "5">>

Schemes == {<<>>, Schemes_https}
Hosts == {<<>>, Host_www, Host_short, Host_other}
Paths ==
    { <<>>, Path_watch, Path_shorts, <<"/">> \o ID1, <<"/">> \o ID1 \o <<"7">>,
      ID1, SubSeq(ID1, 1, IdLen - 1), ID1 \o <<"7">>, <<"n", "o", "t", " ", "a", " ", "u", "r", "l">> }
Params == {Param_v_id, Param_v_abc, Param_v_blank, Param_t, Param_u_short}
Fragments == {<<>>, Frag_t}

ParamSeqs == UNION {[1..n -> Params] : n \in 0..MaxParams}

RECURSIVE Join(_, _)
Join(ps, sep) ==
    IF ps = <<>> THEN <<>>
    ELSE IF Len(ps) = 1 THEN ps[1]
    ELSE ps[1] \o sep \o Join(Tail(ps), sep)

Query(ps) == IF ps = <<>> THEN <<>> ELSE <<"?">> \o Join(ps, <<"&">>)

Build(scheme, host, path, ps, frag) == scheme \o host \o path \o Query(ps) \o frag

\* Texts outside the assembled family: white space around a URL, a final
\* line feed, a bracket in the host, escapes in a value, host without path.
Oddities ==
    { <<" ", "h", "t", "t", "p", "s", ":", "/", "/", "w", "w", "w", ".", "y", "o", "u", "t", "u", "b", "e", ".", "c", "o", "m", "/", "w", "a", "t", "c", "h", "?", "v", "=">> \o ID1,
      ID1 \o <<"\n">>,
      <<"h", "t", "t", "p", "s", ":", "/", "/", "[", "y", "o", "u", "t", "u", "b", "e", ".", "c", "o", "m", "/", "w", "a", "t", "c", "h", "?", "v", "=">> \o ID1,
      <<"h", "t", "t", "p", "s", ":", "/", "/", "w", "w", "w", ".", "y", "o", "u", "t", "u", "b", "e", ".", "c", "o", "m", "/", "w", "a", "t", "c", "h", "?", "v", "=", "a", "+", "b", "%", "4", "1">>,
      <<"h", "t", "t", "p", "s", ":", "/", "/", "w", "w", "w", ".", "y", "o", "u", "t", "u", "b", "e", ".", "c", "o", "m", "/", "w", "a", "t", "c", "h", "?", "t", "=", "1", "&", "%", "7", "6", "=">> \o ID2,
      <<"/", "/", "y", "o", "u", "t", "u", "b", "e", ".", "c", "o", "m", "/", "w", "a", "t", "c", "h", "?", "v", "=">> \o ID1,
      <<"h", "t", "t", "p", "s", ":", "/", "/", "m", ".", "y", "o", "u", "t", "u", "b", "e", ".", "c", "o", "m", "/", "w", "a", "t", "c", "h", "?", "f", "e", "a", "t", "u", "r", "e", "=", "x", "&", "v", "=">> \o ID2 \o <<"#", "v", "=", "a", "b", "c">>,
      <<"h", "t", "t", "p", "s", ":", "/", "/", "y", "o", "u", "t", "u", ".", "b", "e", "/">> \o ID1 \o <<"?", "s", "i", "=", "a", "b", "c">>,
      <<"h", "t", "t", "p", "s", ":", "/", "/", "w", "w", "w", ".", "y", "o", "u", "t", "u", "b", "e", ".", "c", "o", "m", "/", "w", "a", "t", "c", "h", "?", "v", "=">> \o ID1 \o <<"&", "t", "=", "1", "0", "s">> }

Inputs ==
    { Build(s, h, p, ps, f) :
        s \in Schemes, h \in Hosts, p \in Paths, ps \in ParamSeqs, f \in Fragments }
    \cup Oddities

(***************************************************************************)
(* The fetch program (analyze.py): main block, run_data_fetching,          *)
(* fetch_video_metadata, fetch_video_comments                              *)
(***************************************************************************)
\* How many times the program is run on the same argument and folder.
MaxRuns == 2

\* max_comments = 500 and maxResults=100 of fetch_video_comments.
max_comments == 500
maxResults == 100

\* The header rows the two files are written with.
MetadataColumns == <<"title", "channelTitle", "publishedAt", "viewCount", "likeCount", "commentCount">>
CommentColumns == <<"author", "text", "likeCount", "publishedAt">>

\* A file of the output folder: whether it exists, its header, the number
\* of rows under the header, and the run that wrote it.
NoFile == [exists |-> FALSE, columns |-> <<>>, rows |-> 0, run |-> 0]
CsvFile(cols, n, r) == [exists |-> TRUE, columns |-> cols, rows |-> n, run |-> r]

\* The videos the service knows; it answers an empty result set for any
\* other identifier.
ExistingVideos == {ID1}

\* sys.argv[1], NULL when the program is started without an argument.
Argvs ==
    { NULL, <<>>, ID1, <<"n", "o", "t", " ", "a", " ", "u", "r", "l">>,
      Schemes_https \o Host_short \o <<"/">> \o ID1 \o <<"?", "s", "i", "=", "a", "b", "c">>,
      Schemes_https \o Host_www \o Path_watch,
      Schemes_https \o Host_www \o Path_watch \o <<"?">> \o Param_v_abc }

S_youtube_com_slash == <<"y", "o", "u", "t", "u", "b", "e", ".", "c", "o", "m", "/">>

\* The locals of one run before it starts.
FreshLocals ==
    /\ video_id = NULL
    /\ had_files = FALSE
    /\ metadata_call = FALSE
    /\ comments = 0
    /\ total_fetched = 0
    /\ next_page_token = FALSE
    /\ last_error = "none"
    /\ metadata_success = "unset"
    /\ comments_success = "unset"
    /\ success = "unset"
    /\ exit_code = -1

\* The folder is empty and the program about to start.
FetchStart ==
    /\ pc = "main"
    /\ run = 1
    /\ argv \in Argvs
    /\ youtube_api_key \in {"", "key"}
    /\ metadata_file = NoFile
    /\ comment_file = NoFile
    /\ FreshLocals

\* A client without the test of the key.
get_youtube_client_unchecked(key, build_ok) == build_ok

\* get_youtube_client(): a client when the key is set and build() does not
\* raise, None otherwise.
get_youtube_client(key, build_ok) == key # "" /\ build_ok

\* Line 281: the argument looks like a URL.
LooksLikeUrl(a) == Contains(a, S_youtube_com_slash) \/ Contains(a, S_youtu_be)

\* Lines 279-292: the identifier main works with.
MainVideoId(a) == IF LooksLikeUrl(a) THEN extract_video_id(a) ELSE a

\* Fetching whether or not the data files exist.
needs_fetch_always(cfile, mfile) == TRUE

\* Line 299: a fetch is attempted when a data file of the identifier is
\* missing.
needs_fetch(cfile, mfile) == ~cfile.exists \/ ~mfile.exists

\* run_data_fetching returning False when the comment fetch failed.
run_data_fetching_strict(mfile, cfile, csuccess) ==
    IF mfile.exists /\ cfile.exists /\ csuccess = "True" THEN "True" ELSE "False"

\* run_data_fetching lines 245-254: True exactly when both files exist.
run_data_fetching_result(mfile, cfile, csuccess) ==
    IF mfile.exists /\ cfile.exists THEN "True" ELSE "False"

\* fetch_video_comments lines 206-215: what is written and returned once
\* the loop has ended with n records.
comments_written(n, r) == CsvFile(CommentColumns, n, r)

\* fetch_video_comments returning True after writing the empty file.
comments_return_after_write(n) == "True"

comments_return(n) == IF n = 0 THEN "False" ELSE "True"

\* Main block, lines 271-323, up to the call of run_data_fetching.
Main ==
    /\ pc = "main"
    /\ IF argv = NULL
       THEN \* lines 318-323: no argument
            /\ exit_code' = 1
            /\ pc' = "exited"
            /\ UNCHANGED <<video_id, had_files>>
       ELSE IF MainVideoId(argv) = NULL \/ MainVideoId(argv) = <<>>
       THEN \* lines 286-288 and 313-316: no identifier
            /\ exit_code' = 1
            /\ pc' = "exited"
            /\ video_id' = MainVideoId(argv)
            /\ UNCHANGED had_files
       ELSE /\ video_id' = MainVideoId(argv)
            /\ had_files' = (comment_file.exists /\ metadata_file.exists)
            /\ IF ~needs_fetch(comment_file, metadata_file)
               THEN \* line 299 false: nothing is fetched, the program ends
                    /\ exit_code' = 0
                    /\ pc' = "exited"
               ELSE \* line 304: run_data_fetching(video_id, OUTPUT_FOLDER)
                    /\ pc' = "metadata"
                    /\ UNCHANGED exit_code
    /\ UNCHANGED <<run, argv, youtube_api_key, metadata_call, metadata_file,
                   comment_file, comments, total_fetched, next_page_token, last_error,
                   metadata_success, comments_success, success>>
    /\ UNCHANGED <<rvars, svars>>

\* fetch_video_metadata, lines 81-135, and on failure the return through
\* run_data_fetching (lines 236-238) to main's sys.exit(1) (lines 306-310).
\* answer: "items" (a non-empty result set), "empty", "HttpError",
\* "Exception".
FetchMetadata ==
    /\ pc = "metadata"
    /\ \E build_ok \in BOOLEAN, answer \in {"items", "empty", "HttpError", "Exception"} :
        /\ answer = "items" => video_id \in ExistingVideos
        /\ metadata_call' = get_youtube_client(youtube_api_key, build_ok)
        /\ IF get_youtube_client(youtube_api_key, build_ok) /\ answer = "items"
           THEN /\ metadata_file' = CsvFile(MetadataColumns, 1, run)
                /\ metadata_success' = "True"
                /\ pc' = "comments"
                /\ UNCHANGED <<success, exit_code>>
           ELSE /\ metadata_success' = "False"
                /\ success' = "False"
                /\ exit_code' = 1
                /\ pc' = "exited"
                /\ UNCHANGED metadata_file
    /\ UNCHANGED <<run, argv, youtube_api_key, video_id, had_files, comment_file,
                   comments, total_fetched, next_page_token, last_error,
                   comments_success>>
    /\ UNCHANGED <<rvars, svars>>

\* fetch_video_comments lines 148-163: the client, then the empty list.
StartComments ==
    /\ pc = "comments"
    /\ \E build_ok \in BOOLEAN :
        IF get_youtube_client(youtube_api_key, build_ok)
        THEN /\ pc' = "paging"
             /\ comments' = 0
             /\ total_fetched' = 0
             /\ next_page_token' = FALSE
             /\ UNCHANGED <<last_error, comments_success>>
        ELSE \* line 150: return False, nothing written
             /\ pc' = "fetched"
             /\ last_error' = "noClient"
             /\ comments_success' = "False"
             /\ UNCHANGED <<comments, total_fetched, next_page_token>>
    /\ UNCHANGED <<run, argv, youtube_api_key, video_id, had_files, metadata_call,
                   metadata_file,
                   comment_file, metadata_success, success, exit_code>>
    /\ UNCHANGED <<rvars, svars>>

\* Lines 206-215 after the loop has ended with n records: write and return.
EndFetch(n) ==
    /\ comment_file' = comments_written(n, run)
    /\ comments_success' = comments_return(n)
    /\ pc' = "fetched"

\* One pass of the while loop (lines 165-204): a response of k items, with
\* or without a nextPageToken.
PageItems ==
    /\ pc = "paging"
    /\ total_fetched < max_comments
    /\ \E k \in 0..maxResults, more \in BOOLEAN :
        IF k = 0
        THEN \* line 174: no items
             /\ EndFetch(comments)
             /\ UNCHANGED <<comments, total_fetched, next_page_token>>
        ELSE /\ comments' = comments + k
             /\ total_fetched' = total_fetched + k
             /\ next_page_token' = more
             /\ IF ~more \/ total_fetched + k >= max_comments
                THEN EndFetch(comments + k)
                ELSE UNCHANGED <<comment_file, comments_success, pc>>
    /\ UNCHANGED <<run, argv, youtube_api_key, video_id, had_files, metadata_call,
                   metadata_file,
                   last_error, metadata_success, success, exit_code>>
    /\ UNCHANGED <<rvars, svars>>

\* One pass of the loop in which the request raises HttpError (lines
\* 191-196): commentsDisabled (403) or any other.
PageHttpError ==
    /\ pc = "paging"
    /\ total_fetched < max_comments
    /\ \E e \in {"commentsDisabled", "HttpError"} : last_error' = e
    /\ EndFetch(comments)
    /\ UNCHANGED <<run, argv, youtube_api_key, video_id, had_files, metadata_call,
                   metadata_file,
                   comments, total_fetched, next_page_token, metadata_success,
                   success, exit_code>>
    /\ UNCHANGED <<rvars, svars>>

\* One pass of the loop ended by another exception (lines 198-200): raised
\* by the request (j = 0) or by a malformed item after j items of the page
\* were appended.
PageException ==
    /\ pc = "paging"
    /\ total_fetched < max_comments
    /\ \E j \in 0..(maxResults - 1) :
        /\ comments' = comments + j
        /\ total_fetched' = total_fetched + j
        /\ EndFetch(comments + j)
    /\ last_error' = "Exception"
    /\ UNCHANGED <<run, argv, youtube_api_key, video_id, had_files, metadata_call,
                   metadata_file,
                   next_page_token, metadata_success, success, exit_code>>
    /\ UNCHANGED <<rvars, svars>>

\* run_data_fetching lines 242-254 once fetch_video_comments has returned,
\* and main's lines 306-312.
CheckFiles ==
    /\ pc = "fetched"
    /\ success' = run_data_fetching_result(metadata_file, comment_file, comments_success)
    /\ exit_code' = IF success' = "True" THEN 0 ELSE 1
    /\ pc' = "exited"
    /\ UNCHANGED <<run, argv, youtube_api_key, video_id, had_files, metadata_call,
                   metadata_file,
                   comment_file, comments, total_fetched, next_page_token, last_error,
                   metadata_success, comments_success>>
    /\ UNCHANGED <<rvars, svars>>

\* The program is started again on the same argument and output folder;
\* the environment may hold a different key.
Rerun ==
    /\ pc = "exited"
    /\ run < MaxRuns
    /\ run' = run + 1
    /\ pc' = "main"
    /\ youtube_api_key' \in {"", "key"}
    /\ video_id' = NULL
    /\ had_files' = FALSE
    /\ metadata_call' = FALSE
    /\ comments' = 0
    /\ total_fetched' = 0
    /\ next_page_token' = FALSE
    /\ last_error' = "none"
    /\ metadata_success' = "unset"
    /\ comments_success' = "unset"
    /\ success' = "unset"
    /\ exit_code' = -1
    /\ UNCHANGED <<argv, metadata_file, comment_file>>
    /\ UNCHANGED <<rvars, svars>>

FetchNext ==
    \/ Main
    \/ FetchMetadata
    \/ StartComments
    \/ PageItems
    \/ PageHttpError
    \/ PageException
    \/ CheckFiles
    \/ Rerun

\* The fetch program not running (the state of its variables in the
\* specifications of the other programs).
FetchIdle ==
    /\ pc = "idle"
    /\ run = 0
    /\ argv = NULL
    /\ youtube_api_key = ""
    /\ metadata_file = NoFile
    /\ comment_file = NoFile
    /\ FreshLocals

\* The resolver harness not running.
ResolveIdle ==
    /\ url = <<>>
    /\ resolved = NULL
    /\ resolved2 = NULL
    /\ rpc = "idle"

(***************************************************************************)
(* The resolver applied to one input, and applied again to its own result  *)
(***************************************************************************)
ResolveStart ==
    /\ url \in Inputs
    /\ resolved = NULL
    /\ resolved2 = NULL
    /\ rpc = "start"

\* video_id = extract_video_id(user_input)
Resolve ==
    /\ rpc = "start"
    /\ resolved' = extract_video_id(url)
    /\ rpc' = "resolved"
    /\ UNCHANGED <<url, resolved2>>
    /\ UNCHANGED <<fvars, svars>>

\* The resolved identifier handed to extract_video_id as an input.
ResolveAgain ==
    /\ rpc = "resolved"
    /\ resolved # NULL
    /\ resolved2' = extract_video_id(resolved)
    /\ rpc' = "again"
    /\ UNCHANGED <<url, resolved>>
    /\ UNCHANGED <<fvars, svars>>

ResolveNext == Resolve \/ ResolveAgain

(***************************************************************************)
(* The summarisation program (sentiment.py)                                *)
(***************************************************************************)
\* OPENAI_API_KEY = '' (line 18): the module constant the code tests; the
\* environment's OPENAI_API_KEY is never read.
OPENAI_API_KEY_from_env == env_openai_key

OPENAI_API_KEY == ""

\* min(50, len(comments_df)) of line 128.
SampleCap == 50

\* How many rows beyond SampleCap the largest comment file holds.
MaxExtraRows == 2

S_comments_csv == <<"_", "c", "o", "m", "m", "e", "n", "t", "s", ".", "c", "s", "v">>
S_metadata_csv == <<"_", "m", "e", "t", "a", "d", "a", "t", "a", ".", "c", "s", "v">>
S_analysis == <<"_", "a", "n", "a", "l", "y", "s", "i", "s", "_">>
S_txt == <<".", "t", "x", "t">>
S_sentiment_dir == <<"s", "e", "n", "t", "i", "m", "e", "n", "t", "_", "a", "n", "a", "l", "y", "s", "i", "s", "/">>
S_summary_blob == <<"s", "e", "n", "t", "i", "m", "e", "n", "t", "_", "a", "n", "a", "l", "y", "s", "i", "s", "/", "p", "r", "o", "c", "e", "s", "s", "i", "n", "g", "_", "s", "u", "m", "m", "a", "r", "y", ".", "j", "s", "o", "n">>
S_notes == <<"n", "o", "t", "e", "s", ".", "t", "x", "t">>

\* The blobs a container may hold when the program starts.
Blob_c1 == ID1 \o S_comments_csv
Blob_c2 == ID2 \o S_comments_csv
Blob_m1 == ID1 \o S_metadata_csv
CommentBlobs == {Blob_c1, Blob_c2}
BlobUniverse == CommentBlobs \cup {Blob_m1, S_notes, S_summary_blob}

\* list_blobs answers in name order; the order of BlobUniverse's names.
BlobOrder == <<Blob_c2, Blob_c1, Blob_m1, S_notes, S_summary_blob>>

\* The numbers of rows a comment file may hold.
RowChoices == {0, 1, SampleCap + MaxExtraRows}

\* The text a completion returns; "" is an empty completion, "<None>" is
\* Python's None for an analysis.
CompletionText == "analysis"
NoAnalysis == "<None>"
Completions == {CompletionText, ""}

\* str.endswith
EndsWith(s, suffix) ==
    /\ Len(s) >= Len(suffix)
    /\ SubSeq(s, Len(s) - Len(suffix) + 1, Len(s)) = suffix

\* datetime.now().strftime("%Y%m%d_%H%M%S") at the t-th second of the run.
Stamp(t) == <<"T", Printable[17 + t]>>

\* A DataFrame is the sequence of its rows; a row is named by its position
\* in the downloaded file.
DataFrame(n) == [i \in 1..n |-> i]

Min2(a, b) == IF a <= b THEN a ELSE b

\* The arrangements the random source may produce for n rows: the rows
\* rotated by shift, read backwards when rev.  (The library may produce any
\* arrangement; these are the ones drawn here.)
Arrangement(n, shift, rev) ==
    [i \in 1..n |-> LET j == ((i - 1 + shift) % n) + 1
                    IN  IF rev THEN n + 1 - j ELSE j]

\* DataFrame.sample(n=k): k rows drawn without replacement, in the order
\* drawn.
df_sample(df, k, shift, rev) ==
    [i \in 1..k |-> df[Arrangement(Len(df), shift, rev)[i]]]

\* The sample size without the cap.
sample_size_uncapped(df) == Len(df)

\* Line 128.
sample_size(df) == Min2(SampleCap, Len(df))

\* Line 129.
sample_comments_of(df, shift, rev) ==
    IF sample_size(df) > 0 THEN df_sample(df, sample_size(df), shift, rev) ELSE df

\* analyze_comments_with_openai (lines 107-189): the analysis returned,
\* whether the endpoint was called, and the sample put into the prompt.
analyze_comments_with_openai(df, shift, rev, up, completion) ==
    IF OPENAI_API_KEY = ""
    THEN [analysis |-> NoAnalysis, called |-> FALSE, shown |-> <<>>]
    ELSE [analysis |-> IF up THEN completion ELSE NoAnalysis,
          called   |-> TRUE,
          shown    |-> sample_comments_of(df, shift, rev)]

\* No result (process_comment_file returned None).
NoResult == [video_id |-> NULL, analysis_file |-> <<>>, comment_count |-> 0, timestamp |-> <<>>]

NoSummary == [written |-> FALSE, total_files |-> 0, successful_analyses |-> 0, videos |-> <<>>]

\* The locals of process_comment_file before a file is taken up.
NoFileInHand ==
    /\ blob_name = NULL
    /\ p_video_id = NULL
    /\ downloaded = FALSE
    /\ comments_df = <<>>
    /\ video_metadata = FALSE
    /\ openai_analysis = NoAnalysis
    /\ llm_called = FALSE
    /\ shown = <<>>
    /\ result = NoResult

SentimentStart ==
    /\ spc = "start"
    /\ env_openai_key \in {"", "sk"}
    /\ llm_up \in BOOLEAN
    /\ container \in SUBSET BlobUniverse
    /\ blob_rows \in [CommentBlobs -> RowChoices]
    /\ comment_blobs = <<>>
    /\ results = <<>>
    /\ file_index = 0
    /\ NoFileInHand
    /\ llm_calls = 0
    /\ local_files = {}
    /\ remote_files = {}
    /\ now = 0
    /\ summary = NoSummary
    /\ main_result = "unset"
    /\ rng_shift = 0
    /\ rng_rev = FALSE

\* main lines 257-268: the client, the listing, the filter.  The client
\* may fail to be created (main returns False); a failed listing is an
\* empty list.
SList ==
    /\ spc = "start"
    /\ \E client_ok \in BOOLEAN, listing_ok \in BOOLEAN :
        IF ~client_ok
        THEN /\ spc' = "done"
             /\ main_result' = "False"
             /\ UNCHANGED comment_blobs
        ELSE /\ comment_blobs' =
                    IF listing_ok
                    THEN SelectSeq(BlobOrder,
                                   LAMBDA b : b \in container /\ EndsWith(b, S_comments_csv))
                    ELSE <<>>
             /\ spc' = "loop"
             /\ UNCHANGED main_result
    /\ UNCHANGED <<env_openai_key, llm_up, container, blob_rows, results, file_index,
                   blob_name, p_video_id, downloaded, comments_df, video_metadata,
                   openai_analysis, llm_called, shown, result, llm_calls, local_files,
                   remote_files, now, summary, rng_shift, rng_rev>>
    /\ UNCHANGED <<rvars, fvars>>

\* process_comment_file lines 202-213 for the next blob of the list: the
\* identifier from the name, the download, the CSV read.
SDownload ==
    /\ spc = "loop"
    /\ file_index < Len(comment_blobs)
    /\ file_index' = file_index + 1
    /\ blob_name' = comment_blobs[file_index + 1]
    /\ p_video_id' = Split(comment_blobs[file_index + 1], "_")[1]
    /\ now' = now + 1
    /\ \E ok \in BOOLEAN :
        /\ downloaded' = ok
        /\ comments_df' = IF ok THEN DataFrame(blob_rows[comment_blobs[file_index + 1]])
                                ELSE <<>>
        /\ spc' = IF ok THEN "metadata" ELSE "processed"
    /\ video_metadata' = FALSE
    /\ openai_analysis' = NoAnalysis
    /\ llm_called' = FALSE
    /\ shown' = <<>>
    /\ result' = NoResult
    /\ UNCHANGED <<env_openai_key, llm_up, container, blob_rows, comment_blobs, results,
                   llm_calls, local_files, remote_files, summary, main_result, rng_shift,
                   rng_rev>>
    /\ UNCHANGED <<rvars, fvars>>

\* get_video_metadata (lines 92-105): found when the metadata blob of the
\* identifier exists and its download succeeds.
SMetadata ==
    /\ spc = "metadata"
    /\ \E ok \in BOOLEAN :
        video_metadata' = (ok /\ (p_video_id \o S_metadata_csv) \in container)
    /\ spc' = "analyze"
    /\ UNCHANGED <<env_openai_key, llm_up, container, blob_rows, comment_blobs, results,
                   file_index, blob_name, p_video_id, downloaded, comments_df,
                   openai_analysis, llm_called, shown, result, llm_calls, local_files,
                   remote_files, now, summary, main_result, rng_shift,
                   rng_rev>>
    /\ UNCHANGED <<rvars, fvars>>

\* process_comment_file lines 224-245 for a non-empty analysis at clock t:
\* the local file, the upload (its outcome is not looked at) and the record
\* returned, given the files already there.
save_analysis(id, df, t, upload_ok, local, remote) ==
    LET name == id \o S_analysis \o Stamp(t) \o S_txt
    IN  [ local_files  |-> local \cup {name},
          remote_files |-> IF upload_ok THEN remote \cup {S_sentiment_dir \o name}
                                        ELSE remote,
          result       |-> [ video_id      |-> id,
                             analysis_file |-> name,
                             comment_count |-> Len(df),
                             timestamp     |-> Stamp(t) ] ]

\* process_comment_file lines 218-245: the analysis and, when there is
\* one, the local file, the upload and the result record.
SAnalyze ==
    /\ spc = "analyze"
    /\ \E shift \in 0..Len(comments_df), rev \in BOOLEAN, completion \in Completions,
          upload_ok \in BOOLEAN :
        LET a == analyze_comments_with_openai(comments_df, shift, rev, llm_up, completion)
            s == save_analysis(p_video_id, comments_df, now, upload_ok,
                               local_files, remote_files)
        IN  /\ openai_analysis' = a.analysis
            /\ llm_called' = a.called
            /\ llm_calls' = IF a.called THEN llm_calls + 1 ELSE llm_calls
            /\ shown' = a.shown
            /\ IF a.analysis = NoAnalysis \/ a.analysis = ""
               THEN \* line 221: if not openai_analysis: return None
                    /\ result' = NoResult
                    /\ UNCHANGED <<local_files, remote_files>>
               ELSE /\ local_files' = s.local_files
                    /\ remote_files' = s.remote_files
                    /\ result' = s.result
    /\ spc' = "processed"
    /\ UNCHANGED <<env_openai_key, llm_up, container, blob_rows, comment_blobs, results,
                   file_index, blob_name, p_video_id, downloaded, comments_df,
                   video_metadata, now, summary, main_result, rng_shift, rng_rev>>
    /\ UNCHANGED <<rvars, fvars>>

\* main lines 270-272: the result is kept when there is one.
SCollect ==
    /\ spc = "processed"
    /\ results' = IF result # NoResult THEN Append(results, result) ELSE results
    /\ spc' = "loop"
    /\ UNCHANGED <<env_openai_key, llm_up, container, blob_rows, comment_blobs,
                   file_index, blob_name, p_video_id, downloaded, comments_df,
                   video_metadata, openai_analysis, llm_called, shown, result, llm_calls,
                   local_files, remote_files, now, summary, main_result, rng_shift,
                   rng_rev>>
    /\ UNCHANGED <<rvars, fvars>>

\* A summary that counts the analysed files only.
summary_of_results(blobs, res) ==
    [ written             |-> TRUE,
      total_files         |-> Len(res),
      successful_analyses |-> Len(res),
      videos              |-> res ]

\* main lines 275-280: the summary.
summary_of(blobs, res) ==
    [ written             |-> TRUE,
      total_files         |-> Len(blobs),
      successful_analyses |-> Len(res),
      videos              |-> res ]

\* main lines 274-290: the summary is written and uploaded.
SSummary ==
    /\ spc = "loop"
    /\ file_index = Len(comment_blobs)
    /\ summary' = summary_of(comment_blobs, results)
    /\ \E upload_ok \in BOOLEAN :
        remote_files' = IF upload_ok THEN remote_files \cup {S_summary_blob}
                                     ELSE remote_files
    /\ main_result' = "True"
    /\ spc' = "done"
    /\ UNCHANGED <<env_openai_key, llm_up, container, blob_rows, comment_blobs, results,
                   file_index, blob_name, p_video_id, downloaded, comments_df,
                   video_metadata, openai_analysis, llm_called, shown, result, llm_calls,
                   local_files, now, rng_shift, rng_rev>>
    /\ UNCHANGED <<rvars, fvars>>

SentimentNext == SList \/ SDownload \/ SMetadata \/ SAnalyze \/ SCollect \/ SSummary

\* The summarisation program not running.
SentimentIdle ==
    /\ spc = "idle"
    /\ env_openai_key = ""
    /\ llm_up = FALSE
    /\ container = {}
    /\ blob_rows = [b \in CommentBlobs |-> 0]
    /\ comment_blobs = <<>>
    /\ results = <<>>
    /\ file_index = 0
    /\ NoFileInHand
    /\ llm_calls = 0
    /\ local_files = {}
    /\ remote_files = {}
    /\ now = 0
    /\ summary = NoSummary
    /\ main_result = "unset"
    /\ rng_shift = 0
    /\ rng_rev = FALSE

(***************************************************************************)
(* The sampling of lines 127-129 applied to a comment batch                *)
(***************************************************************************)
\* A batch of 0 to SampleCap + MaxExtraRows rows and an arrangement of the
\* random source; nothing sampled yet.
SampleStart ==
    /\ spc = "batch"
    /\ \E n \in 0..(SampleCap + MaxExtraRows) : comments_df = DataFrame(n)
    /\ rng_shift \in 0..(SampleCap + MaxExtraRows)
    /\ rng_shift <= Len(comments_df)
    /\ rng_rev \in BOOLEAN
    /\ shown = <<>>
    /\ env_openai_key = ""
    /\ llm_up = FALSE
    /\ container = {}
    /\ blob_rows = [b \in CommentBlobs |-> 0]
    /\ comment_blobs = <<>>
    /\ results = <<>>
    /\ file_index = 0
    /\ blob_name = NULL
    /\ p_video_id = NULL
    /\ downloaded = TRUE
    /\ video_metadata = FALSE
    /\ openai_analysis = NoAnalysis
    /\ llm_called = FALSE
    /\ result = NoResult
    /\ llm_calls = 0
    /\ local_files = {}
    /\ remote_files = {}
    /\ now = 0
    /\ summary = NoSummary
    /\ main_result = "unset"

\* Lines 128-129: sample_comments.
TakeSample ==
    /\ spc = "batch"
    /\ shown' = sample_comments_of(comments_df, rng_shift, rng_rev)
    /\ spc' = "sampled"
    /\ UNCHANGED <<env_openai_key, llm_up, container, blob_rows, comment_blobs, results,
                   file_index, blob_name, p_video_id, downloaded, comments_df,
                   video_metadata, openai_analysis, llm_called, result, llm_calls,
                   local_files, remote_files, now, summary, main_result, rng_shift,
                   rng_rev>>
    /\ UNCHANGED <<rvars, fvars>>

SampleNext == TakeSample

(***************************************************************************)
(* The saving of lines 224-245 applied to an analysis                      *)
(***************************************************************************)
\* The identifiers process_comment_file may hold at line 224.
RecordIds == {ID1, Split(Blob_c2, "_")[1]}

\* An analysis text has come back for a file of 0 to SampleCap +
\* MaxExtraRows rows; nothing saved yet.
RecordStart ==
    /\ spc = "analysed"
    /\ p_video_id \in RecordIds
    /\ blob_name = p_video_id \o S_comments_csv
    /\ \E n \in 0..(SampleCap + MaxExtraRows) : comments_df = DataFrame(n)
    /\ now \in 0..2
    /\ video_metadata \in BOOLEAN
    /\ openai_analysis = CompletionText
    /\ llm_called = TRUE
    /\ llm_calls = 1
    /\ downloaded = TRUE
    /\ shown = <<>>
    /\ result = NoResult
    /\ env_openai_key = ""
    /\ llm_up = TRUE
    /\ container = {}
    /\ blob_rows = [b \in CommentBlobs |-> 0]
    /\ comment_blobs = <<>>
    /\ results = <<>>
    /\ file_index = 0
    /\ local_files = {}
    /\ remote_files = {}
    /\ summary = NoSummary
    /\ main_result = "unset"
    /\ rng_shift = 0
    /\ rng_rev = FALSE

\* Lines 224-245.
SaveAnalysis ==
    /\ spc = "analysed"
    /\ \E upload_ok \in BOOLEAN :
        LET s == save_analysis(p_video_id, comments_df, now, upload_ok,
                               local_files, remote_files)
        IN  /\ local_files' = s.local_files
            /\ remote_files' = s.remote_files
            /\ result' = s.result
    /\ spc' = "processed"
    /\ UNCHANGED <<env_openai_key, llm_up, container, blob_rows, comment_blobs, results,
                   file_index, blob_name, p_video_id, downloaded, comments_df,
                   video_metadata, openai_analysis, llm_called, shown, llm_calls, now,
                   summary, main_result, rng_shift, rng_rev>>
    /\ UNCHANGED <<rvars, fvars>>

RecordNext == SaveAnalysis

(***************************************************************************)
(* Properties of the resolver                                              *)
(***************************************************************************)
IsIdentifier(s) == Len(s) = IdLen /\ \A k \in 1..Len(s) : s[k] \in IdChars

\* C3: whenever extract_video_id returns a non-null value, the value is
\* exactly 11 characters long and each character is in [a-zA-Z0-9_-].
C3_ResolvedIsIdentifier ==
    (rpc # "start" /\ resolved # NULL) => IsIdentifier(resolved)

\* A short link stands in s at position i: the literal prefix, then eleven
\* characters of the class.
ShortLinkAt(s, prefix, i) ==
    /\ i + Len(prefix) + IdLen - 1 <= Len(s)
    /\ \A k \in 1..Len(prefix) : s[i + k - 1] = prefix[k]
    /\ \A k \in 1..IdLen : s[i + Len(prefix) + k - 1] \in IdChars

ShortLinks(s, prefix) == {i \in 1..Len(s) : ShortLinkAt(s, prefix, i)}

TokenAfter(s, prefix, i) == [k \in 1..IdLen |-> s[i + Len(prefix) + k - 1]]

Min(S) == CHOOSE x \in S : \A y \in S : x <= y

HasShortLink(s) == ShortLinks(s, S_youtu_be) # {} \/ ShortLinks(s, S_shorts) # {}

\* C4: for an input that contains a youtu.be/<id> or youtube.com/shorts/<id>
\* link, extract_video_id returns the 11-character token that follows the
\* prefix (of the leftmost youtu.be link, else of the leftmost shorts link),
\* whatever surrounds it; the watch-URL rule and the bare-identifier rule
\* never decide such an input.
C4_ShortLinkCaptured ==
    (rpc # "start" /\ HasShortLink(url)) =>
        IF ShortLinks(url, S_youtu_be) # {}
        THEN resolved = TokenAfter(url, S_youtu_be, Min(ShortLinks(url, S_youtu_be)))
        ELSE resolved = TokenAfter(url, S_shorts, Min(ShortLinks(url, S_shorts)))

\* A short link behind a watch URL with its own v parameter, followed by a
\* query: the short rule has decided against the watch rule.
C4_Witness ==
    /\ rpc = "resolved"
    /\ url = Build(Schemes_https, Host_www, Path_watch, <<Param_v_abc, Param_u_short>>, Frag_t)
    /\ resolved = ID2

\* The watch URLs of the supported form: an optional scheme, the site's
\* host, /watch, and a query whose parameters hold no short link and in
\* which a v parameter has a value.
NameOf(p) == SubSeq(p, 1, FindAny(p, {"="}) - 1)
ValueOf(p) == From(p, FindAny(p, {"="}) + 1)
PlainParams == {p \in Params : ~HasShortLink(p)}
PlainParamSeqs == UNION {[1..n -> PlainParams] : n \in 0..MaxParams}
VParams(ps) == SelectSeq(ps, LAMBDA p : NameOf(p) = <<"v">> /\ ValueOf(p) # <<>>)

\* C5: for every watch URL youtube.com/watch?v=VIDEO_ID, with or without a
\* scheme, with other parameters before or after v, extract_video_id
\* returns the first value of the v parameter.
C5_WatchUrlFirstV ==
    rpc # "start" =>
        \A s \in Schemes, ps \in PlainParamSeqs, f \in Fragments :
            (url = Build(s, Host_www, Path_watch, ps, f) /\ VParams(ps) # <<>>)
                => resolved = ValueOf(VParams(ps)[1])

\* C6: extract_video_id(extract_video_id(x)) = extract_video_id(x) whenever
\* extract_video_id(x) is non-null.
C6_Idempotent == rpc = "again" => resolved2 = resolved

\* A bare token of n characters over [a-zA-Z0-9_-].
BareToken(s, n) == Len(s) = n /\ \A k \in 1..Len(s) : s[k] \in IdChars

\* Malformed input: the empty text, a bare token of 10 or 12 characters,
\* or text that names no YouTube host and is not an identifier.
Malformed(s) ==
    \/ s = <<>>
    \/ BareToken(s, IdLen - 1)
    \/ BareToken(s, IdLen + 1)
    \/ /\ ~IsIdentifier(s)
       /\ ~Contains(s, S_youtube_com)
       /\ ~Contains(s, S_youtu_be)

\* C15: for malformed input extract_video_id returns None (an exception
\* raised inside it is caught and None is returned).
C15_MalformedIsNone ==
    (rpc # "start" /\ Malformed(url)) => resolved = NULL

(***************************************************************************)
(* Properties of the fetch program                                         *)
(***************************************************************************)
\* C1: the batch accumulated and written by fetch_video_comments never
\* holds more than max_comments (500) comments, whatever the pages; a fetch
\* that is ended by the cap therefore ends with exactly 500.
C1_BatchWithinCap ==
    /\ comments <= max_comments
    /\ comment_file.exists => comment_file.rows <= max_comments

\* fetch_video_comments has returned after asking the service.
Fetched == pc = "fetched" /\ last_error # "noClient"

\* The header-only comments file of this run.
EmptyCommentsFile == [exists |-> TRUE, columns |-> CommentColumns, rows |-> 0, run |-> run]

\* C2 as stated: whenever the service reports comments-disabled, or the
\* fetch ends with zero comments, the header-only file is written and False
\* is returned.
C2_DisabledOrEmptyFails ==
    (Fetched /\ (last_error = "commentsDisabled" \/ comments = 0)) =>
        (comment_file = EmptyCommentsFile /\ comments_success = "False")

\* C2 as amended: whenever the fetch ends with zero comments accumulated
\* (a comments-disabled error on the first request included), the
\* header-only file is written and False is returned.
C2_EmptyFetchFails ==
    (Fetched /\ comments = 0) =>
        (comment_file = EmptyCommentsFile /\ comments_success = "False")

\* A comments-disabled answer to the first request has been handled.
C2_Witness ==
    /\ Fetched
    /\ last_error = "commentsDisabled"
    /\ comments = 0
    /\ comment_file = EmptyCommentsFile
    /\ comments_success = "False"

\* The argument does not resolve to a valid identifier.
Unresolvable(a) ==
    \/ a = NULL
    \/ extract_video_id(a) = NULL
    \/ ~IsIdentifier(extract_video_id(a))

\* C7 as stated: the program exits non-zero on a missing credential, on an
\* argument that does not resolve, and on a failed metadata or comment
\* fetch; it exits zero only when both files came from a successful fetch.
C7_ExitStatus ==
    pc = "exited" =>
        /\ youtube_api_key = "" => exit_code # 0
        /\ Unresolvable(argv) => exit_code # 0
        /\ (metadata_success = "False" \/ comments_success = "False") => exit_code # 0
        /\ exit_code = 0 => (metadata_success = "True" /\ comments_success = "True")

\* C7 as amended: the program exits 1 without an argument, with an empty
\* argument, with a URL-shaped argument that yields no identifier, and when
\* it attempts a fetch (a data file is missing) without a credential or
\* with a failing metadata fetch; otherwise it exits 0 exactly when both
\* data files already existed (nothing is fetched or checked) or the
\* metadata fetch succeeded and a comments file exists afterwards, whether
\* or not the comment fetch succeeded.
C7_ExitStatusAmended ==
    pc = "exited" =>
        /\ exit_code \in {0, 1}
        /\ argv = NULL => exit_code = 1
        /\ argv = <<>> => exit_code = 1
        /\ (argv # NULL /\ LooksLikeUrl(argv) /\ extract_video_id(argv) = NULL)
              => exit_code = 1
        /\ (~had_files /\ youtube_api_key = "") => exit_code = 1
        /\ metadata_success = "False" => exit_code = 1
        /\ exit_code = 0 <=>
              \/ had_files
              \/ metadata_success = "True" /\ comment_file.exists

\* A run whose comment fetch failed and wrote the header-only file exits 0.
C7_Witness ==
    /\ pc = "exited"
    /\ exit_code = 0
    /\ metadata_success = "True"
    /\ comments_success = "False"
    /\ comment_file = EmptyCommentsFile

\* C13: after any run that exits successfully, both data files hold the
\* data returned by the service during that run (a re-run replaces the
\* files of an identifier wholesale).
C13_RerunReplacesFiles ==
    (pc = "exited" /\ exit_code = 0) =>
        /\ metadata_file = CsvFile(MetadataColumns, 1, run)
        /\ comment_file.exists /\ comment_file.run = run

\* C13 as amended: a run that finds both data files fetches nothing and
\* leaves both as an earlier run wrote them; a run that finds a data file
\* missing and exits successfully has written both files in that run.
C13_RerunKeepsOrReplaces ==
    (pc = "exited" /\ exit_code = 0) =>
        IF had_files
        THEN /\ metadata_file.exists /\ metadata_file.run < run
             /\ comment_file.exists /\ comment_file.run < run
             /\ ~metadata_call
        ELSE /\ metadata_file = CsvFile(MetadataColumns, 1, run)
             /\ comment_file.exists /\ comment_file.run = run

\* A second run on an identifier whose files the first run wrote has
\* exited successfully and the files are still those of the first run.
C13_Witness ==
    /\ pc = "exited"
    /\ exit_code = 0
    /\ run = 2
    /\ had_files
    /\ metadata_file = CsvFile(MetadataColumns, 1, 1)
    /\ comment_file.exists /\ comment_file.run = 1

\* fetch_video_metadata is running: from the call at line 236 to its
\* return.
MetadataStep == pc = "metadata" /\ pc' # "metadata"

\* C14: fetch_video_metadata makes no service call when the key is
\* missing, and changes the metadata file only on success: on success the
\* file holds exactly one record of this run, on every failure it returns
\* False and leaves an existing metadata file as it was.
C14_MetadataFrame ==
    [][ MetadataStep =>
          /\ youtube_api_key = "" => (~metadata_call' /\ metadata_success' = "False")
          /\ metadata_success' \in {"True", "False"}
          /\ metadata_success' = "True" =>
                 (metadata_call' /\ metadata_file' = CsvFile(MetadataColumns, 1, run))
          /\ metadata_success' = "False" => metadata_file' = metadata_file
      ]_vars

\* A run without a key has failed in fetch_video_metadata, no request was
\* made, and the metadata file of the first run is still there.
C14_Witness ==
    /\ pc = "exited"
    /\ run = 2
    /\ youtube_api_key = ""
    /\ metadata_success = "False"
    /\ ~metadata_call
    /\ metadata_file = CsvFile(MetadataColumns, 1, 1)

(***************************************************************************)
(* Properties of the summarisation program                                 *)
(***************************************************************************)
\* The analysis artifacts process_comment_file would write for the file in
\* hand: the local text file and its upload.
AnalysisName == p_video_id \o S_analysis \o Stamp(now) \o S_txt

ArtifactsOfCall == {AnalysisName, S_sentiment_dir \o AnalysisName}

NoArtifact == ArtifactsOfCall \cap (local_files \cup remote_files) = {}

C9_CalledIffKeyConfigured ==
    (spc = "processed" /\ downloaded) =>
        /\ llm_called <=> (env_openai_key # "")
        /\ (env_openai_key # "" /\ llm_up) => openai_analysis \in Completions
        /\ env_openai_key = "" => (openai_analysis = NoAnalysis /\ llm_calls = 0)

(***************************************************************************)
(* Properties of the sampling                                              *)
(***************************************************************************)
Rows(s) == {s[i] : i \in 1..Len(s)}

Distinct(s) == \A i, j \in 1..Len(s) : s[i] = s[j] => i = j

Candidates ==
    SelectSeq(BlobOrder, LAMBDA b : b \in container /\ EndsWith(b, S_comments_csv))

SummaryCounts ==
    /\ summary.successful_analyses = Len(summary.videos)
    /\ summary.videos = results
    /\ summary.successful_analyses <= summary.total_files

\* C11 as stated: in a batch run every blob whose name ends in
\* _comments.csv is processed exactly once, failures do not stop the loop,
\* and the written summary has total_files = the number of such blobs and
\* successful_analyses = Len(videos) = the number of results, at most
\* total_files.
C11_EveryCandidateOnce ==
    summary.written =>
        /\ comment_blobs = Candidates
        /\ file_index = Len(Candidates)
        /\ now = Len(Candidates)
        /\ summary.total_files = Len(Candidates)
        /\ SummaryCounts

\* C11 as amended: every listed blob whose name ends in _comments.csv is
\* processed exactly once, whatever the outcome of the others; the listed
\* blobs are those of the container, or none when the listing failed; the
\* summary counts the listed blobs and the results.
C11_EveryListedOnce ==
    summary.written =>
        /\ comment_blobs \in {Candidates, <<>>}
        /\ file_index = Len(comment_blobs)
        /\ now = Len(comment_blobs)
        /\ summary.total_files = Len(comment_blobs)
        /\ SummaryCounts

\* Two comment files were listed, the download of the last one failed, and
\* the summary was written with both counted.
C11_Witness ==
    /\ spc = "done"
    /\ main_result = "True"
    /\ summary.written
    /\ Len(comment_blobs) = 2
    /\ summary.total_files = 2
    /\ file_index = 2
    /\ ~downloaded

IdOfBlob(b) == SubSeq(b, 1, Len(b) - Len(S_comments_csv))

\* C16: for a blob <id>_comments.csv with a valid 11-character identifier,
\* process_comment_file works with exactly <id>: the metadata looked up is
\* <id>_metadata.csv, the analysis file is <id>_analysis_<timestamp>.txt
\* and the record's video_id is <id>.
C16_IdRecovered ==
    (blob_name # NULL /\ EndsWith(blob_name, S_comments_csv)
                      /\ IsIdentifier(IdOfBlob(blob_name))) =>
        /\ p_video_id = IdOfBlob(blob_name)
        /\ p_video_id \o S_metadata_csv = IdOfBlob(blob_name) \o S_metadata_csv
        /\ result # NoResult =>
              /\ result.video_id = IdOfBlob(blob_name)
              /\ result.analysis_file =
                     IdOfBlob(blob_name) \o S_analysis \o result.timestamp \o S_txt

(***************************************************************************)
(* Specifications                                                          *)
(***************************************************************************)
Init == FetchStart /\ ResolveIdle /\ SentimentIdle
ResolveInit == ResolveStart /\ FetchIdle /\ SentimentIdle
SentimentInit == SentimentStart /\ FetchIdle /\ ResolveIdle
SampleInit == SampleStart /\ FetchIdle /\ ResolveIdle
RecordInit == RecordStart /\ FetchIdle /\ ResolveIdle

\* The fetch program, run up to MaxRuns times on one argument.
Spec == Init /\ [][FetchNext]_vars

\* extract_video_id on every input of the family, then on its own result.
SpecResolve == ResolveInit /\ [][ResolveNext]_vars

\* One batch run of the summarisation program.
SpecSentiment == SentimentInit /\ [][SentimentNext]_vars

\* The sampling step applied to every batch size and arrangement.
SpecSample == SampleInit /\ [][SampleNext]_vars
\* The saving step applied to every analysed file and upload outcome.
SpecRecord == RecordInit /\ [][RecordNext]_vars
====
